---- MODULE Spec2Model ----
(***************************************************************************)
(* Kitchen manager: the pantry quantity ledger with its shopping-list      *)
(* replenishment (recipes/views.py) and the fingerprint-gated nutrition    *)
(* enrichment of recipes (recipes/models.py).                              *)
(*                                                                         *)
(* Decimal quantities are counted in whole steps of the smallest amount    *)
(* the pantry form accepts.  An optional value is a sequence: <<>> is      *)
(* Python's None, <<x>> is the value x.                                    *)
(***************************************************************************)
EXTENDS Integers, Sequences, FiniteSets, Bags, TLC

\* ---------------------------------------------------------------- bounds
NumItems == 1
MaxQty == 3
MaxShop == 2
NumRequests == 2

\* the requests that can be in progress at once
Requests == 1..NumRequests

\* ------------------------------------------------------- optional values
None == <<>>
Some(x) == <<x>>
IsSet(o) == o # None
Val(o) == o[1]

Max(a, b) == IF a >= b THEN a ELSE b
Abs(a) == IF a < 0 THEN -a ELSE a

\* ------------------------------------------------------------ the pantry
ItemIds == 1..NumItems
\* names typed into the pantry form and into the shopping form
ItemNames == {"Milk", "Eggs"}
ShoppingNames == {"milk"}

\* name__iexact compares names without regard to case
Lower(name) == IF name = "Milk" THEN "milk" ELSE IF name = "Eggs" THEN "eggs" ELSE name

Quantities == {None} \cup {Some(q) : q \in 0..MaxQty}
Thresholds == {None, Some(2)}
Amounts == {-2, -1, 0, 1, 2, 3}

\* what the quantity-reduction endpoint is posted as its "amount"
PostedAmounts ==
    {[kind |-> "number", value |-> a] : a \in Amounts}
        \cup {[kind |-> "text", value |-> 0], [kind |-> "missing", value |-> 0]}

NoItem == [exists |-> FALSE, name |-> "", quantity_amount |-> None,
           low_stock_threshold |-> None, used |-> FALSE]

NoResponse == [status |-> 0, error |-> "", reached_zero |-> FALSE,
               added_to_shopping |-> FALSE, became_low_stock |-> FALSE]

VARIABLES
    items,      \* the PantryItem table: pk -> row
    shopping,   \* the ShoppingItem table, a bag of rows
    recipe,     \* the stored Recipe row
    reqs,       \* the recipe requests in progress: their in-memory instance
    api_key,    \* settings.ANTHROPIC_API_KEY
    last,       \* history: the save completed last and the one before it
    calls       \* the quantity-reduction requests in progress: request -> locals

pantryVars == <<items, shopping, calls>>
recipeVars == <<recipe, reqs, api_key, last>>
vars == <<items, shopping, recipe, reqs, api_key, last, calls>>

\* PantryItem.is_low_stock (called by the views; taken from the design document)
is_low_stock(item) ==
    /\ IsSet(item.quantity_amount)
    /\ IsSet(item.low_stock_threshold)
    /\ Val(item.quantity_amount) <= Val(item.low_stock_threshold)

\* PantryItem.reduce_quantity (called by the views; taken from the design
\* document): the item it saves and its return value
reduce_quantity(item, amount) ==
    LET q == Max(0, Val(item.quantity_amount) - amount)
    IN  [item |-> [item EXCEPT !.quantity_amount = Some(q),
                               !.used = IF q = 0 THEN TRUE ELSE @],
         reached_zero |-> (q = 0)]

ParseAmountLenient(posted) ==
    CASE posted.kind = "number" -> <<TRUE, posted.value>>
      [] OTHER -> <<TRUE, 1>>

\* Decimal(request.POST.get("amount", "1")): <<parsed, amount>>
ParseAmount(posted) ==
    CASE posted.kind = "number" -> <<TRUE, posted.value>>
      [] posted.kind = "missing" -> <<TRUE, 1>>
      [] OTHER -> <<FALSE, 0>>

\* ShoppingItem.objects.filter(name__iexact=name, checked=False).exists()
ActiveEntryExists(shop, name) ==
    \E e \in BagToSet(shop) : Lower(e.name) = Lower(name) /\ ~e.checked

\* ShoppingItem.objects.create(name=item.name, quantity=item.unit)
NewEntry(name, by) == [name |-> name, checked |-> FALSE, by |-> by]

EnsureEntryAlways(shop, name) ==
    [shopping |-> shop (+) SetToBag({NewEntry(name, "dispatcher")}), added |-> TRUE]

EnsureEntryExactCase(shop, name) ==
    IF \E e \in BagToSet(shop) : e.name = name /\ ~e.checked
    THEN [shopping |-> shop, added |-> FALSE]
    ELSE [shopping |-> shop (+) SetToBag({NewEntry(name, "dispatcher")}), added |-> TRUE]

\* the check-then-create of the dispatcher
EnsureEntry(shop, name) ==
    IF ActiveEntryExists(shop, name)
    THEN [shopping |-> shop, added |-> FALSE]
    ELSE [shopping |-> shop (+) SetToBag({NewEntry(name, "dispatcher")}), added |-> TRUE]

DispatchZeroAlsoLow(shop, item, was_low_stock, reached_zero) ==
    IF reached_zero \/ (is_low_stock(item) /\ ~was_low_stock)
    THEN LET r == EnsureEntry(shop, item.name)
         IN  [shopping |-> r.shopping, added_to_shopping |-> r.added,
              became_low_stock |-> is_low_stock(item) /\ ~was_low_stock]
    ELSE [shopping |-> shop, added_to_shopping |-> FALSE, became_low_stock |-> FALSE]

DispatchEveryLowStep(shop, item, was_low_stock, reached_zero) ==
    IF reached_zero
    THEN LET r == EnsureEntry(shop, item.name)
         IN  [shopping |-> r.shopping, added_to_shopping |-> r.added,
              became_low_stock |-> FALSE]
    ELSE IF is_low_stock(item)
    THEN LET r == EnsureEntry(shop, item.name)
         IN  [shopping |-> r.shopping, added_to_shopping |-> r.added,
              became_low_stock |-> TRUE]
    ELSE [shopping |-> shop, added_to_shopping |-> FALSE, became_low_stock |-> FALSE]

\* the branch of pantry_reduce_quantity after item.reduce_quantity(amount)
Dispatch(shop, item, was_low_stock, reached_zero) ==
    IF reached_zero
    THEN LET r == EnsureEntry(shop, item.name)
         IN  [shopping |-> r.shopping, added_to_shopping |-> r.added,
              became_low_stock |-> FALSE]
    ELSE IF is_low_stock(item) /\ ~was_low_stock
    THEN LET r == EnsureEntry(shop, item.name)
         IN  [shopping |-> r.shopping, added_to_shopping |-> r.added,
              became_low_stock |-> TRUE]
    ELSE [shopping |-> shop, added_to_shopping |-> FALSE, became_low_stock |-> FALSE]

ReplenishedSigned(item, amount) ==
    LET q == Val(item.quantity_amount) + amount
    IN  [item EXCEPT !.quantity_amount = Some(q),
                     !.used = IF @ /\ q > 0 THEN FALSE ELSE @]

ReplenishedKeepingUsed(item, amount) ==
    [item EXCEPT !.quantity_amount = Some(Val(item.quantity_amount) + Abs(amount))]

\* the amount < 0 branch of pantry_reduce_quantity
Replenished(item, amount) ==
    LET q == Val(item.quantity_amount) + Abs(amount)
    IN  [item EXCEPT !.quantity_amount = Some(q),
                     !.used = IF @ /\ q > 0 THEN FALSE ELSE @]

Rejected(error) == [NoResponse EXCEPT !.status = 400, !.error = error]

\* pantry_add: PantryItemForm.save() on a new item; used takes its default
PantryAdd(pk, name, quantity, threshold) ==
    /\ ~items[pk].exists
    /\ \A p \in ItemIds : p < pk => items[p].exists
    /\ items' = [items EXCEPT ![pk] =
            [exists |-> TRUE, name |-> name, quantity_amount |-> quantity,
             low_stock_threshold |-> threshold, used |-> FALSE]]
    /\ UNCHANGED <<shopping, calls, recipeVars>>

\* pantry_edit: PantryItemForm.save() on the stored item; used is no form field
PantryEdit(pk, name, quantity, threshold) ==
    /\ items[pk].exists
    /\ items' = [items EXCEPT ![pk].name = name,
                              ![pk].quantity_amount = quantity,
                              ![pk].low_stock_threshold = threshold]
    /\ UNCHANGED <<shopping, calls, recipeVars>>

\* pantry_mark_used
PantryMarkUsed(pk) ==
    /\ items[pk].exists
    /\ items' = [items EXCEPT ![pk].used = TRUE]
    /\ UNCHANGED <<shopping, calls, recipeVars>>

\* pantry_reduce_quantity on the stored item and shopping list: what it stores
\* and the JsonResponse it returns
reduce_request(item, shop, posted) ==
    LET parsed == ParseAmount(posted)
        amount == parsed[2]
    IN  IF ~IsSet(item.quantity_amount)
        THEN [item |-> item, shopping |-> shop,
              response |-> Rejected("Item has no numeric quantity")]
        ELSE IF ~parsed[1]
        THEN [item |-> item, shopping |-> shop, response |-> Rejected("Invalid amount")]
        ELSE IF amount > 0
        THEN LET red == reduce_quantity(item, amount)
                 d == Dispatch(shop, red.item, is_low_stock(item), red.reached_zero)
             IN  [item |-> red.item, shopping |-> d.shopping,
                  response |-> [NoResponse EXCEPT
                      !.status = 200,
                      !.reached_zero = red.reached_zero,
                      !.added_to_shopping = d.added_to_shopping,
                      !.became_low_stock = d.became_low_stock]]
        ELSE IF amount < 0
        THEN [item |-> Replenished(item, amount), shopping |-> shop,
              response |-> [NoResponse EXCEPT !.status = 200]]
        ELSE [item |-> item, shopping |-> shop,
              response |-> [NoResponse EXCEPT !.status = 200]]

\* one request to the quantity-reduction endpoint; the response leaves the
\* program and is no part of its state
PantryReduceQuantity(pk, posted) ==
    /\ items[pk].exists
    /\ LET out == reduce_request(items[pk], shopping, posted)
       IN  /\ BagCardinality(out.shopping) <= MaxShop
           /\ IsSet(out.item.quantity_amount) => Val(out.item.quantity_amount) <= MaxQty
           /\ items' = [items EXCEPT ![pk] = out.item]
           /\ shopping' = out.shopping
           /\ UNCHANGED <<calls, recipeVars>>

\* shopping_add: ShoppingItemForm.save()
ShoppingAdd(name) ==
    /\ BagCardinality(shopping) < MaxShop
    /\ shopping' = shopping (+) SetToBag({NewEntry(name, "user")})
    /\ UNCHANGED <<items, calls, recipeVars>>

\* shopping_toggle
ShoppingToggle(e) ==
    /\ BagIn(e, shopping)
    /\ shopping' = (shopping (-) SetToBag({e}))
                       (+) SetToBag({[e EXCEPT !.checked = ~e.checked]})
    /\ UNCHANGED <<items, calls, recipeVars>>

\* shopping_delete
ShoppingDelete(e) ==
    /\ BagIn(e, shopping)
    /\ shopping' = shopping (-) SetToBag({e})
    /\ UNCHANGED <<items, calls, recipeVars>>

\* shopping_clear
ShoppingClear ==
    /\ \E e \in BagToSet(shopping) : e.checked
    /\ shopping' = [e \in {x \in BagToSet(shopping) : ~x.checked} |-> shopping[e]]
    /\ UNCHANGED <<items, calls, recipeVars>>

\* ---- pantry_reduce_quantity taken one database access at a time
\* the locals of a request as it enters the handler
NoCall == [pc |-> "entered", pk |-> 0, item |-> NoItem, amount |-> 0,
           response |-> NoResponse]
\* the requests in progress with request r at call, and with request r gone
With(r, call) == [x \in DOMAIN calls \cup {r} |-> IF x = r THEN call ELSE calls[x]]
Without(r) == [x \in DOMAIN calls \ {r} |-> calls[x]]
At(r, pc) == r \in DOMAIN calls /\ calls[r].pc = pc

InsertedUniqueName(shop, entry) ==
    IF ActiveEntryExists(shop, entry.name)
    THEN [shopping |-> shop, refused |-> TRUE]
    ELSE [shopping |-> shop (+) SetToBag({entry}), refused |-> FALSE]

\* the INSERT of ShoppingItem.objects.create: no column of the table is
\* unique, so no row is refused
Inserted(shop, entry) ==
    [shopping |-> shop (+) SetToBag({entry}), refused |-> FALSE]

\* get_object_or_404, the None check and the parsing of the amount
ReduceLoad(r, pk, posted) ==
    /\ r \notin DOMAIN calls
    /\ items[pk].exists
    /\ LET parsed == ParseAmount(posted)
       IN  calls' = With(r,
               IF ~IsSet(items[pk].quantity_amount)
               THEN [NoCall EXCEPT !.pc = "done",
                         !.response = Rejected("Item has no numeric quantity")]
               ELSE IF ~parsed[1]
               THEN [NoCall EXCEPT !.pc = "done", !.response = Rejected("Invalid amount")]
               ELSE [NoCall EXCEPT !.pc = "loaded", !.pk = pk, !.item = items[pk],
                         !.amount = parsed[2],
                         !.response = [NoResponse EXCEPT !.status = 200]])
    /\ UNCHANGED <<items, shopping, recipeVars>>

\* item.reduce_quantity(amount), or the amount < 0 branch: the loaded item is
\* changed and saved, and the branch to take is chosen
ReduceStore(r) ==
    /\ At(r, "loaded")
    /\ LET call == calls[r]
           red == reduce_quantity(call.item, call.amount)
           became == ~red.reached_zero /\ is_low_stock(red.item) /\ ~is_low_stock(call.item)
       IN  IF call.amount > 0
           THEN /\ items' = [items EXCEPT ![call.pk] = red.item]
                /\ calls' = [calls EXCEPT ![r] = [call EXCEPT
                        !.pc = IF red.reached_zero \/ became THEN "check" ELSE "done",
                        !.item = red.item,
                        !.amount = 0,
                        !.response.reached_zero = red.reached_zero,
                        !.response.became_low_stock = became]]
           ELSE IF call.amount < 0
           THEN /\ Val(Replenished(call.item, call.amount).quantity_amount) <= MaxQty
                /\ items' = [items EXCEPT ![call.pk] = Replenished(call.item, call.amount)]
                /\ calls' = [calls EXCEPT ![r] = [call EXCEPT
                        !.pc = "done", !.amount = 0,
                        !.item = Replenished(call.item, call.amount)]]
           ELSE /\ calls' = [calls EXCEPT ![r] = [call EXCEPT !.pc = "done"]]
                /\ UNCHANGED items
    /\ UNCHANGED <<shopping, recipeVars>>

\* ShoppingItem.objects.filter(name__iexact=item.name, checked=False).exists()
ReduceCheck(r) ==
    /\ At(r, "check")
    /\ calls' = [calls EXCEPT ![r].pc =
            IF ActiveEntryExists(shopping, calls[r].item.name) THEN "done" ELSE "create"]
    /\ UNCHANGED <<items, shopping, recipeVars>>

\* ShoppingItem.objects.create(...) and added_to_shopping = True
ReduceCreate(r) ==
    /\ At(r, "create")
    /\ BagCardinality(shopping) < MaxShop
    /\ LET ins == Inserted(shopping, NewEntry(calls[r].item.name, "dispatcher"))
       IN  /\ shopping' = ins.shopping
           /\ calls' = [calls EXCEPT ![r] =
                   IF ins.refused
                   THEN [@ EXCEPT !.pc = "done", !.response = [NoResponse EXCEPT !.status = 500]]
                   ELSE [@ EXCEPT !.pc = "done", !.response.added_to_shopping = TRUE]]
    /\ UNCHANGED <<items, recipeVars>>

\* return JsonResponse(...)
ReduceReturn(r) ==
    /\ At(r, "done")
    /\ calls' = Without(r)
    /\ UNCHANGED <<items, shopping, recipeVars>>

PantryInit ==
    /\ items = [pk \in ItemIds |-> NoItem]
    /\ shopping = EmptyBag
    /\ calls = <<>>

PantryNext ==
    \/ \E pk \in ItemIds, name \in ItemNames, quantity \in Quantities, threshold \in Thresholds :
           PantryAdd(pk, name, quantity, threshold)
    \/ \E pk \in ItemIds, name \in ItemNames, quantity \in Quantities, threshold \in Thresholds :
           PantryEdit(pk, name, quantity, threshold)
    \/ \E pk \in ItemIds : PantryMarkUsed(pk)
    \/ \E pk \in ItemIds, posted \in PostedAmounts : PantryReduceQuantity(pk, posted)
    \/ \E name \in ShoppingNames : ShoppingAdd(name)
    \/ \E e \in BagToSet(shopping) : ShoppingToggle(e)
    \/ \E e \in BagToSet(shopping) : ShoppingDelete(e)
    \/ ShoppingClear

\* items of one name put into the pantry, one or three of each, and reduced
\* by one at a time by requests that are interleaved
RacePosted == {posted \in PostedAmounts : posted.kind = "number" /\ posted.value = 1}
RaceNext ==
    \/ \E pk \in ItemIds, quantity \in {1, 3}, threshold \in Thresholds :
           PantryAdd(pk, "Milk", Some(quantity), threshold)
    \/ \E r \in Requests, pk \in ItemIds, posted \in RacePosted : ReduceLoad(r, pk, posted)
    \/ \E r \in Requests : ReduceStore(r)
    \/ \E r \in Requests : ReduceCheck(r)
    \/ \E r \in Requests : ReduceCreate(r)
    \/ \E r \in Requests : ReduceReturn(r)

\* ----------------------------------------------------------- the recipes

Titles == {"Pancakes", "Crepes"}
\* " " is an ingredients text that is not empty and strips to nothing
Ingredients == {" ", "eggs", "flour"}
Servings == {1, 2}
ApiKeys == {"", "your-api-key-here", "your_key_here"}

Fields == <<"calories", "protein_g", "carbs_g", "fat_g", "fiber_g", "sugar_g", "sodium_mg">>
FieldNames == {Fields[i] : i \in 1..Len(Fields)}
IntFields == {"calories", "sodium_mg"}

NoNutrition == [f \in FieldNames |-> None]
NoHash == <<>>

\* Recipe._compute_ingredients_hash: sha256 of "{ingredients}|{servings}", a
\* digest that differs whenever the pair differs and is never the empty string
_compute_ingredients_hash(ingredients, servings) == <<ingredients, servings>>

\* str.strip() on the ingredients texts
Strip(text) == IF text = " " THEN "" ELSE text

\* a new Recipe(...) before its first save: the field defaults
NewInstance(title, ingredients, servings) ==
    [exists |-> TRUE, title |-> title, ingredients |-> ingredients,
     servings |-> servings, nutrition |-> NoNutrition, hash |-> NoHash]

NoRecipe == [exists |-> FALSE, title |-> "", ingredients |-> "", servings |-> 0,
             nutrition |-> NoNutrition, hash |-> NoHash]

\* ---- what the estimation service answers
\* a JSON value of the answer: a number (in tenths), a text that is no number,
\* or a key that is absent
Number(tenths) == [t |-> "number", tenths |-> tenths]
Word == [t |-> "word", tenths |-> 0]
Absent == [t |-> "absent", tenths |-> 0]

NumEstimates == 2
Estimate(k) == [f \in FieldNames |-> Number(10 * k + 5)]
Estimates == {Estimate(k) : k \in 1..NumEstimates}
Defective ==
    {[Estimate(1) EXCEPT ![f] = v] : f \in FieldNames, v \in {Word, Absent}}

\* kind "error": the call raises; kind "text": message.content[0].text, with its
\* fence ("none", "block": ```json\n...\n```, "bare": ``` alone) and, when json is
\* TRUE, the object it holds
Unreachable == [kind |-> "error", fence |-> "none", json |-> FALSE, data |-> Estimate(1)]
Text(fence, json, data) == [kind |-> "text", fence |-> fence, json |-> json, data |-> data]
Responses ==
    {Unreachable, Text("bare", FALSE, Estimate(1))}
        \cup {Text(fence, FALSE, Estimate(1)) : fence \in {"none", "block"}}
        \cup {Text(fence, TRUE, e) : fence \in {"none", "block"}, e \in Estimates}
        \cup {Text("none", TRUE, d) : d \in Defective}

\* int(x) and round(float(x), 1) on a JSON number given in tenths
ToInt(value) == value.tenths \div 10
ToRounded(value) == value.tenths

Converted(data) ==
    [f \in FieldNames |->
        Some(IF f \in IntFields THEN ToInt(data[f]) ELSE ToRounded(data[f]))]

\* the fence handling and json.loads: <<parsed, data>>
Loaded(resp) ==
    IF resp.kind # "text" THEN <<FALSE, resp.data>>
    ELSE IF resp.fence = "bare" THEN <<FALSE, resp.data>>
    ELSE <<resp.json, resp.data>>

FirstBad(data) ==
    CHOOSE i \in 1..(Len(Fields) + 1) :
        /\ i <= Len(Fields) => data[Fields[i]].t # "number"
        /\ \A j \in 1..(i - 1) : data[Fields[j]].t = "number"

UpdatedFieldByField(row, data, ingredients_hash) ==
    LET bad == FirstBad(data)
    IN  [ok |-> bad > Len(Fields),
         row |-> [row EXCEPT
             !.nutrition = [f \in FieldNames |->
                 IF \E j \in 1..(bad - 1) : Fields[j] = f
                 THEN Converted(data)[f] ELSE @[f]],
             !.hash = IF bad > Len(Fields) THEN ingredients_hash ELSE @]]

UpdatedWithoutHash(row, data, ingredients_hash) ==
    IF \A f \in FieldNames : data[f].t = "number"
    THEN [ok |-> TRUE, row |-> [row EXCEPT !.nutrition = Converted(data)]]
    ELSE [ok |-> FALSE, row |-> row]

\* Recipe.objects.filter(pk=self.pk).update(...): the arguments are evaluated
\* first, and one that raises leaves the row as it is
Updated(row, data, ingredients_hash) ==
    IF \A f \in FieldNames : data[f].t = "number"
    THEN [ok |-> TRUE,
          row |-> IF row.exists
                  THEN [row EXCEPT !.nutrition = Converted(data),
                                   !.hash = ingredients_hash]
                  ELSE row]
    ELSE [ok |-> FALSE, row |-> row]

Configured(key) == key # "" /\ key # "your-api-key-here"

_generate_nutrition_raising(row, ingredients_hash, key, resp) ==
    IF ~Configured(key)
    THEN [row |-> row, outcome |-> "unconfigured"]
    ELSE IF ~Loaded(resp)[1]
    THEN [row |-> row, outcome |-> "raised"]
    ELSE LET u == Updated(row, Loaded(resp)[2], ingredients_hash)
         IN  [row |-> u.row, outcome |-> IF u.ok THEN "success" ELSE "raised"]

\* Recipe._generate_nutrition: the row it leaves and what it did
_generate_nutrition(row, ingredients_hash, key, resp) ==
    IF ~Configured(key)
    THEN [row |-> row, outcome |-> "unconfigured"]
    ELSE IF ~Loaded(resp)[1]
    THEN [row |-> row, outcome |-> "failed"]
    ELSE LET u == Updated(row, Loaded(resp)[2], ingredients_hash)
         IN  [row |-> u.row, outcome |-> IF u.ok THEN "success" ELSE "failed"]

SavedAdvancingHash(inst) ==
    LET new_hash == _compute_ingredients_hash(inst.ingredients, inst.servings)
    IN  [row |-> [inst EXCEPT !.hash = new_hash],
         new_hash |-> new_hash,
         enrich |-> new_hash # inst.hash /\ Strip(inst.ingredients) # ""]

\* Recipe.save up to the call of _generate_nutrition: the row super().save()
\* writes (every field of the instance), the hash, and whether to estimate
Saved(inst) ==
    LET new_hash == _compute_ingredients_hash(inst.ingredients, inst.servings)
    IN  [row |-> inst,
         new_hash |-> new_hash,
         enrich |-> new_hash # inst.hash /\ Strip(inst.ingredients) # ""]

Idle == [pc |-> "idle", inst |-> NoRecipe, new_hash |-> NoHash, after |-> "other"]
NoSave == [ingredients |-> "", servings |-> 0, outcome |-> "none", after |-> "other"]

\* the outcome of the save completed last, if it had these ingredients and servings
After(ingredients, servings) ==
    IF last.outcome # "none" /\ last.ingredients = ingredients /\ last.servings = servings
    THEN last.outcome ELSE "other"

Completed(inst, outcome, after) ==
    [ingredients |-> inst.ingredients, servings |-> inst.servings,
     outcome |-> outcome, after |-> after]

Alone(r) == \A o \in Requests \ {r} : reqs[o].pc = "idle"

\* the save of an instance by request r: the primary write, then either the
\* end of the save or the wait for the estimate
Save(r, inst) ==
    LET sv == Saved(inst)
    IN  /\ recipe' = sv.row
        /\ IF sv.enrich
           THEN /\ reqs' = [reqs EXCEPT ![r] =
                        [pc |-> "enrich", inst |-> inst, new_hash |-> sv.new_hash,
                         after |-> After(inst.ingredients, inst.servings)]]
                /\ UNCHANGED last
           ELSE /\ reqs' = [reqs EXCEPT ![r] = Idle]
                /\ last' = Completed(inst, "skipped",
                                     After(inst.ingredients, inst.servings))

\* recipe_create with a valid form, or recipe_generate with "save": the first
\* save of a new recipe; only recipe_generate lets blank ingredients through
Create(r, title, ingredients, servings) ==
    /\ reqs[r].pc = "idle"
    /\ ~recipe.exists
    /\ Save(r, NewInstance(title, ingredients, servings))
    /\ UNCHANGED <<api_key, pantryVars>>

\* recipe_edit: get_object_or_404(Recipe, slug=slug)
Load(r) ==
    /\ reqs[r].pc = "idle"
    /\ recipe.exists
    /\ reqs' = [reqs EXCEPT ![r] = [Idle EXCEPT !.pc = "loaded", !.inst = recipe]]
    /\ UNCHANGED <<recipe, api_key, last, pantryVars>>

\* the two, taken up while no other request is in progress
RecipeCreate(r, title, ingredients, servings) ==
    /\ Alone(r)
    /\ Create(r, title, ingredients, servings)

RecipeEditLoad(r) ==
    /\ Alone(r)
    /\ Load(r)

\* recipe_edit answering a GET or an invalid form: nothing is saved
RecipeEditShow(r) ==
    /\ reqs[r].pc = "loaded"
    /\ reqs' = [reqs EXCEPT ![r] = Idle]
    /\ UNCHANGED <<recipe, api_key, last, pantryVars>>

\* recipe_edit with a valid form (RecipeForm requires ingredients and strips
\* them, so blank ones are refused): form.save() on the loaded instance
RecipeEditSave(r, title, ingredients, servings) ==
    /\ reqs[r].pc = "loaded"
    /\ Strip(ingredients) # ""
    /\ Save(r, [reqs[r].inst EXCEPT !.title = title, !.ingredients = ingredients,
                                    !.servings = servings])
    /\ UNCHANGED <<api_key, pantryVars>>

GenerateNutritionSavingInstance(r, resp) ==
    /\ reqs[r].pc = "enrich"
    /\ LET out == _generate_nutrition(recipe, reqs[r].new_hash, api_key, resp)
       IN  /\ recipe' = IF out.outcome = "success"
                        THEN [reqs[r].inst EXCEPT !.nutrition = out.row.nutrition,
                                                  !.hash = out.row.hash]
                        ELSE recipe
           /\ last' = Completed(reqs[r].inst, out.outcome, reqs[r].after)
    /\ reqs' = [reqs EXCEPT ![r] = Idle]
    /\ UNCHANGED <<api_key, pantryVars>>

\* the rest of Recipe.save: _generate_nutrition with the service's answer
GenerateNutrition(r, resp) ==
    /\ reqs[r].pc = "enrich"
    /\ LET out == _generate_nutrition(recipe, reqs[r].new_hash, api_key, resp)
       IN  /\ recipe' = out.row
           /\ last' = Completed(reqs[r].inst, out.outcome, reqs[r].after)
    /\ reqs' = [reqs EXCEPT ![r] = Idle]
    /\ UNCHANGED <<api_key, pantryVars>>

RecipeInit ==
    /\ recipe = NoRecipe
    /\ reqs = [r \in Requests |-> Idle]
    /\ api_key \in ApiKeys
    /\ last = NoSave

RecipeNext ==
    \/ \E r \in Requests, title \in Titles, ingredients \in Ingredients, servings \in Servings :
           RecipeCreate(r, title, ingredients, servings)
    \/ \E r \in Requests : RecipeEditLoad(r)
    \/ \E r \in Requests : RecipeEditShow(r)
    \/ \E r \in Requests, title \in Titles, ingredients \in Ingredients, servings \in Servings :
           RecipeEditSave(r, title, ingredients, servings)
    \/ \E r \in Requests, resp \in Responses : GenerateNutrition(r, resp)

\* the recipe requests taken up whatever the others are doing: one
\* ingredients text for one serving under either title, and a service that
\* answers with a plain estimate or not at all
PlainResponses == {Unreachable} \cup {Text("none", TRUE, e) : e \in Estimates}
ConcurrentNext ==
    \/ \E r \in Requests, title \in Titles : Create(r, title, "eggs", 1)
    \/ \E r \in Requests : Load(r)
    \/ \E r \in Requests : RecipeEditShow(r)
    \/ \E r \in Requests, title \in Titles : RecipeEditSave(r, title, "eggs", 1)
    \/ \E r \in Requests, resp \in PlainResponses : GenerateNutrition(r, resp)

\* --------------------------------------------------------- specifications
Init == PantryInit /\ RecipeInit
Next == PantryNext \/ RecipeNext
Spec == Init /\ [][Next]_vars

\* the pantry and the shopping list alone, the recipes untouched
InitPantry == Init /\ api_key = ""
SpecPantry == InitPantry /\ [][PantryNext]_vars
\* the recipes alone, one request at a time
SpecRecipe == Init /\ [][RecipeNext]_vars
\* the recipes alone, the requests interleaved
\* the pantry alone, the quantity reductions interleaved
SpecRace == InitPantry /\ [][RaceNext]_vars
InitConcurrent == Init /\ api_key = "your_key_here"
SpecConcurrent == InitConcurrent /\ [][ConcurrentNext]_vars

\* ------------------------------------------------------------ properties
StoredItems == {pk \in ItemIds : items[pk].exists}
Tracked == {pk \in StoredItems : IsSet(items[pk].quantity_amount)}
Qty(pk) == Val(items[pk].quantity_amount)
Numbers == {posted \in PostedAmounts : posted.kind = "number"}
Reductions == {posted \in Numbers : posted.value > 0}
Outcome(pk, posted) == reduce_request(items[pk], shopping, posted)
QtyAfter(pk, posted) == Val(Outcome(pk, posted).item.quantity_amount)
ActiveFor(shop, name) ==
    {e \in BagToSet(shop) : ~e.checked /\ Lower(e.name) = Lower(name)}
\* the unchecked entries the dispatcher created under a name, counted with copies
DispatcherActive(shop, lname) ==
    LET es == {e \in BagToSet(shop) :
                   ~e.checked /\ e.by = "dispatcher" /\ Lower(e.name) = lname}
    IN  BagCardinality([e \in es |-> shop[e]])
LowerNames == {Lower(n) : n \in ItemNames \cup ShoppingNames}

\* C1: every stored quantity is >= 0, every call to the quantity-reduction
\* endpoint (reducing, replenishing, zero) stores a quantity >= 0, and a
\* reduction by more than the current quantity stores exactly 0.
C1_NoNegativeQuantity ==
    /\ \A pk \in Tracked : Qty(pk) >= 0
    /\ \A pk \in Tracked, posted \in Numbers :
           /\ QtyAfter(pk, posted) >= 0
           /\ posted.value > Qty(pk) => QtyAfter(pk, posted) = 0

\* an item floored at zero by the endpoint: used, and the dispatcher has listed it
C1_Witness ==
    \E pk \in Tracked :
        /\ Qty(pk) = 0
        /\ items[pk].used
        /\ \E e \in BagToSet(shopping) : e.by = "dispatcher" /\ e.name = items[pk].name

\* C2 as stated: per name, at most one unchecked entry created by the dispatcher.
C2_AtMostOneActiveDispatched ==
    \A lname \in LowerNames : DispatcherActive(shopping, lname) <= 1

Unchecks ==
    \E e \in BagToSet(shopping) :
        /\ e.checked
        /\ e.by = "dispatcher"
        /\ shopping' = (shopping (-) SetToBag({e}))
                           (+) SetToBag({[e EXCEPT !.checked = FALSE]})

\* C2 amended: the number of unchecked dispatcher-created entries of a name
\* rises above one only in a step that un-checks a checked dispatcher-created
\* entry; reduce, replenish, add, check, delete and clear never raise it above one.
C2_OnlyUncheckExceedsOne ==
    [][\A lname \in LowerNames :
           (/\ DispatcherActive(shopping', lname) > 1
            /\ DispatcherActive(shopping', lname) > DispatcherActive(shopping, lname))
               => Unchecks]_vars

\* the dispatcher has created an entry beside a checked one of the same name
C2_Witness ==
    \E lname \in LowerNames :
        /\ DispatcherActive(shopping, lname) = 1
        /\ \E e \in BagToSet(shopping) :
               e.checked /\ e.by = "dispatcher" /\ Lower(e.name) = lname

\* C5 as stated: a tracked quantity of 0 implies used.
C5_ZeroImpliesUsed ==
    \A pk \in Tracked : Qty(pk) = 0 => items[pk].used

\* C7: a positive reduction answers became_low_stock = true exactly when it
\* takes the quantity from above the threshold to at or below it without
\* reaching zero; from a quantity already at or below the threshold it
\* answers false.
C7_CrossingFiresOnce ==
    \A pk \in Tracked, posted \in Reductions :
        LET thr == items[pk].low_stock_threshold
            became == Outcome(pk, posted).response.became_low_stock
        IN  /\ (IsSet(thr) /\ Qty(pk) > Val(thr)
                  /\ QtyAfter(pk, posted) <= Val(thr) /\ QtyAfter(pk, posted) > 0)
                  => became
            /\ (IsSet(thr) /\ Qty(pk) <= Val(thr)) => ~became
            /\ ~IsSet(thr) => ~became

\* an item listed by the dispatcher sits at its threshold, above zero, and a
\* further reduction keeps it there
C7_Witness ==
    \E pk \in Tracked, posted \in Reductions :
        /\ IsSet(items[pk].low_stock_threshold)
        /\ Qty(pk) <= Val(items[pk].low_stock_threshold)
        /\ ~items[pk].used
        /\ \E e \in ActiveFor(shopping, items[pk].name) : e.by = "dispatcher"
        /\ QtyAfter(pk, posted) > 0
        /\ ~Outcome(pk, posted).response.became_low_stock

\* C8: a positive reduction of an item at 0 stores 0 and used = true, and
\* stores the shopping list unchanged when an unchecked entry with the item's
\* name (case-insensitive) exists.
C8_ZeroFloorIdempotent ==
    \A pk \in Tracked, posted \in Reductions :
        Qty(pk) = 0 =>
            /\ QtyAfter(pk, posted) = 0
            /\ Outcome(pk, posted).item.used
            /\ ActiveFor(shopping, items[pk].name) # {} =>
                   /\ Outcome(pk, posted).shopping = shopping
                   /\ ~Outcome(pk, posted).response.added_to_shopping

\* an item at 0 whose name is listed, unchecked, in another case
C8_Witness ==
    \E pk \in Tracked :
        /\ Qty(pk) = 0
        /\ items[pk].used
        /\ \E e \in ActiveFor(shopping, items[pk].name) : e.name # items[pk].name

\* C9: a call with a non-numeric amount, or on an item without a numeric
\* quantity, is answered 400 and stores the item and the shopping list unchanged.
C9_RejectedChangesNothing ==
    \A pk \in StoredItems, posted \in PostedAmounts :
        (posted.kind = "text" \/ ~IsSet(items[pk].quantity_amount)) =>
            /\ Outcome(pk, posted).response.status = 400
            /\ Outcome(pk, posted).item = items[pk]
            /\ Outcome(pk, posted).shopping = shopping

\* a listed item with a quantity, for which a non-numeric amount is refused
C9_Witness ==
    \E pk \in Tracked, posted \in PostedAmounts :
        /\ posted.kind = "text"
        /\ Qty(pk) > 0
        /\ ActiveFor(shopping, items[pk].name) # {}
        /\ Outcome(pk, posted).response.error = "Invalid amount"

Called(outcome) == outcome \in {"success", "failed"}
AllSet(nutrition) == \A f \in FieldNames : IsSet(nutrition[f])
AllUnset(nutrition) == \A f \in FieldNames : ~IsSet(nutrition[f])
\* an answer that cannot be turned into a complete estimate
Fails(resp) ==
    \/ resp.kind = "error"
    \/ resp.fence = "bare"
    \/ ~resp.json
    \/ \E f \in FieldNames : resp.data[f].t # "number"
Estimating == {r \in Requests : reqs[r].pc = "enrich"}
Attempt(r, resp) == _generate_nutrition(recipe, reqs[r].new_hash, api_key, resp)

\* C3 as stated: the second of two saves in a row with the same ingredients
\* and servings never calls the estimation service.
C3_SecondSaveNeverCalls ==
    last.after # "other" => ~Called(last.outcome)

\* C3 amended: the second of two saves in a row with the same ingredients and
\* servings makes no call when the first one's estimation did not fail (it
\* succeeded, was skipped by the gate or for blank ingredients, or no key is set).
C3_NoCallAfterUnfailedSave ==
    last.after \in {"success", "skipped", "unconfigured"} => ~Called(last.outcome)

\* a save that followed a successful estimate of the same ingredients
C3_Witness ==
    /\ last.after = "success"
    /\ last.outcome = "skipped"
    /\ AllSet(recipe.nutrition)

\* C4: a failing answer to a pending estimation leaves the stored nutrition
\* fields and the stored hash as they were.
C4_FailureKeepsNutrition ==
    \A r \in Estimating, resp \in Responses :
        (Configured(api_key) /\ Fails(resp)) =>
            /\ Attempt(r, resp).outcome = "failed"
            /\ Attempt(r, resp).row.nutrition = recipe.nutrition
            /\ Attempt(r, resp).row.hash = recipe.hash

\* a failed estimation for changed ingredients, the earlier estimate still stored
C4_Witness ==
    /\ last.outcome = "failed"
    /\ AllSet(recipe.nutrition)
    /\ recipe.hash # NoHash
    /\ recipe.hash # _compute_ingredients_hash(recipe.ingredients, recipe.servings)

\* C6: the stored nutrition fields are all unset or all set.
C6_NutritionAllOrNone ==
    recipe.exists => AllSet(recipe.nutrition) \/ AllUnset(recipe.nutrition)

\* a failed first estimation has stored nothing
C6_Witness ==
    /\ recipe.exists
    /\ last.outcome = "failed"
    /\ AllUnset(recipe.nutrition)
    /\ recipe.hash = NoHash

\* C10: the save that follows a failed estimation, with the same ingredients
\* and servings, calls the estimation service again.
C10_RetryAfterFailure ==
    last.after = "failed" => Called(last.outcome)

\* the retry after a failure succeeded
C10_Witness ==
    /\ last.after = "failed"
    /\ last.outcome = "success"
    /\ recipe.hash = _compute_ingredients_hash(recipe.ingredients, recipe.servings)

Replenishments == {posted \in Numbers : posted.value < 0}
\* the calls the endpoint takes as a reduction: a positive number, or no
\* amount at all (the default "1")
PositiveCalls ==
    {posted \in PostedAmounts : ParseAmount(posted)[1] /\ ParseAmount(posted)[2] > 0}
NoFlags(response) ==
    /\ ~response.reached_zero
    /\ ~response.added_to_shopping
    /\ ~response.became_low_stock

\* C12: a call with a negative amount stores the quantity plus the absolute
\* amount, stores used = false when used was true and the new quantity is
\* above 0 and the stored used otherwise, changes no other field of the item,
\* stores the shopping list unchanged, and answers 200 with reached_zero,
\* added_to_shopping and became_low_stock all false.
C12_ReplenishAddsAndKeepsList ==
    \A pk \in Tracked, posted \in Replenishments :
        LET out == Outcome(pk, posted)
            q == Qty(pk) + Abs(posted.value)
        IN  /\ out.item = [items[pk] EXCEPT
                    !.quantity_amount = Some(q),
                    !.used = IF items[pk].used /\ q > 0 THEN FALSE ELSE items[pk].used]
            /\ out.shopping = shopping
            /\ out.response.status = 200
            /\ NoFlags(out.response)

\* a used item at 0, listed by the dispatcher and at its threshold, whose
\* replenishment clears used and leaves the entry alone
C12_Witness ==
    \E pk \in Tracked, posted \in Replenishments :
        /\ Qty(pk) = 0
        /\ items[pk].used
        /\ is_low_stock(items[pk])
        /\ \E e \in ActiveFor(shopping, items[pk].name) : e.by = "dispatcher"
        /\ ~Outcome(pk, posted).item.used
        /\ QtyAfter(pk, posted) = Abs(posted.value)

Created(shop, after) ==
    \E e \in BagToSet(after) :
        /\ ~e.checked
        /\ after = shop (+) SetToBag({e})

\* C13: a call with a positive amount never answers reached_zero and
\* became_low_stock both true, answers added_to_shopping = true only with
\* reached_zero or became_low_stock, and answers added_to_shopping = true
\* exactly when it stores the shopping list with one new unchecked entry
\* (otherwise it stores the list unchanged).
C13_FlagsAgree ==
    \A pk \in Tracked, posted \in PositiveCalls :
        LET out == Outcome(pk, posted)
            resp == out.response
        IN  /\ ~(resp.reached_zero /\ resp.became_low_stock)
            /\ resp.added_to_shopping => (resp.reached_zero \/ resp.became_low_stock)
            /\ resp.added_to_shopping <=> Created(shopping, out.shopping)
            /\ ~resp.added_to_shopping => out.shopping = shopping

\* an unlisted item above its threshold that a reduction takes straight to
\* zero: the zero path answers, and the entry is created
C13_Witness ==
    \E pk \in Tracked, posted \in PositiveCalls :
        /\ IsSet(items[pk].low_stock_threshold)
        /\ Qty(pk) > Val(items[pk].low_stock_threshold)
        /\ ActiveFor(shopping, items[pk].name) = {}
        /\ \E e \in BagToSet(shopping) : e.checked /\ Lower(e.name) = Lower(items[pk].name)
        /\ Outcome(pk, posted).response.reached_zero
        /\ Outcome(pk, posted).response.added_to_shopping
        /\ ~Outcome(pk, posted).response.became_low_stock

\* the fields of a recipe the forms write
Primary(row) == <<row.title, row.ingredients, row.servings>>
\* the ways Recipe.save returns to its caller
Returns == {"skipped", "unconfigured", "success", "failed"}

\* C11: while a save waits for its estimate the stored record already holds
\* the title, ingredients and servings it saved; whatever the service answers
\* (an estimate, a defective answer, an exception) the estimation returns to
\* the save and leaves the record stored with those fields; and after every
\* completed save, skipped estimations included, the stored ingredients and
\* servings are the saved ones.
C11_SavePersistsWhateverEnrichment ==
    /\ \A r \in Estimating :
           /\ recipe.exists
           /\ Primary(recipe) = Primary(reqs[r].inst)
           /\ \A resp \in Responses :
                  /\ Attempt(r, resp).outcome \in Returns
                  /\ Attempt(r, resp).row.exists
                  /\ Primary(Attempt(r, resp).row) = Primary(reqs[r].inst)
    /\ (Estimating = {} /\ last.outcome # "none") =>
           /\ last.outcome \in Returns
           /\ recipe.exists
           /\ recipe.ingredients = last.ingredients
           /\ recipe.servings = last.servings

\* an edit of an estimated recipe changed its ingredients and its estimation
\* failed: the edit is stored, under the earlier estimate
C11_Witness ==
    /\ Estimating = {}
    /\ last.outcome = "failed"
    /\ recipe.title = "Crepes"
    /\ recipe.ingredients = last.ingredients
    /\ recipe.hash # NoHash
    /\ recipe.hash[1] # recipe.ingredients

\* the step in which request r's estimation ends
EnrichmentStep(r) == reqs[r].pc = "enrich" /\ reqs'[r].pc = "idle"

\* C15: the step that ends an estimation leaves the stored title, ingredients
\* and servings as they are at that moment, whoever wrote them last; when it
\* succeeded it stores the seven nutrition fields and the hash of the save it
\* belongs to, and otherwise it stores nothing.
C15_UpdateKeepsOtherFields ==
    [][\A r \in Requests :
           EnrichmentStep(r) =>
               /\ recipe'.exists = recipe.exists
               /\ Primary(recipe') = Primary(recipe)
               /\ last'.outcome = "success" =>
                      /\ AllSet(recipe'.nutrition)
                      /\ recipe'.hash = reqs[r].new_hash
               /\ last'.outcome # "success" => recipe' = recipe]_vars

\* a request saved another title and still waits for its own estimate when
\* the estimate of an earlier save is stored: the title it saved is kept
C15_Witness ==
    \E b \in Estimating :
        /\ last.outcome = "success"
        /\ AllSet(recipe.nutrition)
        /\ recipe.hash # NoHash
        /\ AllUnset(reqs[b].inst.nutrition)
        /\ Primary(recipe) = Primary(reqs[b].inst)
        /\ recipe.title = "Crepes"

\* C16 as stated: the stored nutrition fields and the stored hash of a recipe
\* change only in the step that ends a successful estimation; no primary
\* write of a save changes them.
C16_NutritionChangesOnlyInPersistStep ==
    [][(/\ recipe.exists
        /\ \/ recipe'.nutrition # recipe.nutrition
           \/ recipe'.hash # recipe.hash)
          => \E r \in Requests : EnrichmentStep(r) /\ last'.outcome = "success"]_vars

Calling == DOMAIN calls
Answered == {r \in Calling : calls[r].pc = "done"}

\* C14: with the quantity reductions interleaved no request is answered with
\* an error: a request creates an entry only after a reduction that reached
\* zero or crossed the threshold, the creation is never refused, and when a
\* request that reached zero is answered an unchecked entry with the item's
\* name exists, found or created.
C14_RaceRaisesNoError ==
    \A r \in Calling :
        /\ calls[r].response.status \in {200, 400}
        /\ calls[r].pc = "create" =>
               calls[r].response.reached_zero \/ calls[r].response.became_low_stock
        /\ calls[r].response.added_to_shopping => r \in Answered
        /\ (r \in Answered /\ calls[r].response.reached_zero) =>
               ActiveFor(shopping, calls[r].item.name) # {}

\* two requests reduced the same item to zero, each found no entry before the
\* other created one, and both are answered 200 with added_to_shopping: two
\* unchecked entries with the item's name
C14_Witness ==
    \E r1, r2 \in Answered :
        /\ r1 # r2
        /\ calls[r1].pk = calls[r2].pk
        /\ \A r \in {r1, r2} :
               /\ calls[r].response.status = 200
               /\ calls[r].response.reached_zero
               /\ calls[r].response.added_to_shopping
        /\ DispatcherActive(shopping, Lower(calls[r1].item.name)) = 2
====
